---- MODULE Spec2Model ----
(***************************************************************************)
(* A model of python-datapath (src/datapath/_base.py, types.py,            *)
(* folding.py): the path grammar (split / join), the resolver (leaf, get,  *)
(* put, delete, discard) and the fold / unfold transform.                  *)
(*                                                                         *)
(* Strings are sequences of one-character strings.  A value of the tree is *)
(* a record [kind, keys, items, val]:                                      *)
(*    kind = "leaf"  a value that is neither list nor dict (val),          *)
(*    kind = "list"  a Python list (items, 1-based here, 0-based in paths),*)
(*    kind = "dict"  a Python dict: keys in insertion order, items[i] the  *)
(*                   value stored under keys[i].                           *)
(***************************************************************************)
EXTENDS Integers, Sequences, FiniteSets, TLC

VARIABLES str, iterable, pc, sres, jres, vres, ires,
          root, op, path, value, default, res, old, yielded,
          tree, base, table, proc, wrap, partial, unf, fpc

vars == <<str, iterable, pc, sres, jres, vres, ires,
          root, op, path, value, default, res, old, yielded,
          tree, base, table, proc, wrap, partial, unf, fpc>>

pathVars == <<str, iterable, pc, sres, jres, vres, ires>>
treeVars == <<root, op, path, value, default, res, old, yielded>>
foldVars == <<tree, base, table, proc, wrap, partial, unf, fpc>>

(***************************************************************************)
(* Bounds of the model.                                                    *)
(***************************************************************************)
MaxLen == 4
MaxList == 2
MaxSize == 4

\* the characters path strings are drawn from
Alphabet == {"a", "*", "[", "]", ".", "0", "1", "-", ":", "\n"}

RECURSIVE StringsOfLen(_)
StringsOfLen(n) ==
  IF n = 0 THEN {<<>>}
  ELSE {Append(s, c) : s \in StringsOfLen(n - 1), c \in Alphabet}

Strings == UNION {StringsOfLen(n) : n \in 0..MaxLen}

(***************************************************************************)
(* Characters and decimal numbers.                                         *)
(***************************************************************************)
Digits == <<"0", "1", "2", "3", "4", "5", "6", "7", "8", "9">>

IsDigit(c) == \E d \in 1..10 : Digits[d] = c

DigitVal(c) == (CHOOSE d \in 1..10 : Digits[d] = c) - 1

\* value of a non-empty run of decimal digits
RECURSIVE DigitsToNat(_)
DigitsToNat(s) ==
  IF s = <<>> THEN 0
  ELSE 10 * DigitsToNat(SubSeq(s, 1, Len(s) - 1)) + DigitVal(s[Len(s)])

\* Python str(n) for n >= 0
RECURSIVE NatToStr(_)
NatToStr(n) ==
  IF n < 10 THEN <<Digits[n + 1]>>
  ELSE Append(NatToStr(n \div 10), Digits[(n % 10) + 1])

\* Python f'{n}' for an int
IntToStr(n) == IF n < 0 THEN <<"-">> \o NatToStr(0 - n) ELSE NatToStr(n)

\* Python int(s) for s matching -?[0-9]* : a ValueError unless a digit follows
IntParses(s) ==
  IF s # <<>> /\ s[1] = "-" THEN Len(s) > 1 ELSE s # <<>>

ParseInt(s) ==
  IF s[1] = "-" THEN 0 - DigitsToNat(SubSeq(s, 2, Len(s)))
  ELSE DigitsToNat(s)

Contains(s, c) == \E i \in 1..Len(s) : s[i] = c

\* F(e), with e evaluated once (a local variable of the code)
Let(e, F(_)) == CHOOSE r \in {F(x) : x \in {e}} : TRUE

(***************************************************************************)
(* The path grammar, _path_re.  The regular expression is                  *)
(*    ^(?: K I? | I )(?: \. K I? | I )*$                                   *)
(* with K = [^[.]+ and I = \[ N (:N){0,2} \], N = -?[0-9]*.                 *)
(* Every K and every I is one capture of the group 'part'.                 *)
(***************************************************************************)
\* as IsKeyChar, with "." a character of keys
IsKeyChar_Dot(c) == c # "["

IsKeyChar(c) == c \notin {"[", "."}

\* first position at or after i that does not continue a key ([^[.]+)
RECURSIVE KeyEnd(_, _)
KeyEnd(s, i) ==
  IF i <= Len(s) /\ IsKeyChar(s[i]) THEN KeyEnd(s, i + 1) ELSE i

RECURSIVE DigitsEnd(_, _)
DigitsEnd(s, i) ==
  IF i <= Len(s) /\ IsDigit(s[i]) THEN DigitsEnd(s, i + 1) ELSE i

\* _number_pattern  -?[0-9]*  starting at i: the position after it
NumberEnd(s, i) ==
  IF i <= Len(s) /\ s[i] = "-" THEN DigitsEnd(s, i + 1) ELSE DigitsEnd(s, i)

\* _range_parts_pattern  (?::-?[0-9]*){0,2}  starting at i, at most n more
RECURSIVE RangeEnd(_, _, _)
RangeEnd(s, i, n) ==
  IF n > 0 /\ i <= Len(s) /\ s[i] = ":"
  THEN Let(NumberEnd(s, i + 1), LAMBDA j : RangeEnd(s, j, n - 1))
  ELSE i

\* _index_pattern starting at i: the position after the closing bracket,
\* or 0 when no bracketed part starts at i
IndexEnd(s, i) ==
  IF i <= Len(s) /\ s[i] = "["
  THEN Let(RangeEnd(s, NumberEnd(s, i + 1), 2), LAMBDA j :
         IF j <= Len(s) /\ s[j] = "]" THEN j + 1 ELSE 0)
  ELSE 0

NoMatch == [ok |-> FALSE, parts |-> <<>>]

\* the repeated group (?: \. K I? | I )* from position i, then $
RECURSIVE MatchRest(_, _, _)
MatchRest(s, i, parts) ==
  IF i > Len(s) THEN [ok |-> TRUE, parts |-> parts]
  ELSE IF s[i] = "." /\ KeyEnd(s, i + 1) > i + 1
  THEN Let(KeyEnd(s, i + 1), LAMBDA k :
       Let(IndexEnd(s, k), LAMBDA e :
         IF e > 0
         THEN Let(parts \o <<SubSeq(s, i + 1, k - 1), SubSeq(s, k, e - 1)>>,
                  LAMBDA ps : MatchRest(s, e, ps))
         ELSE Let(Append(parts, SubSeq(s, i + 1, k - 1)),
                  LAMBDA ps : MatchRest(s, k, ps))))
  ELSE IF IndexEnd(s, i) > 0
  THEN Let(IndexEnd(s, i), LAMBDA e :
       Let(Append(parts, SubSeq(s, i, e - 1)), LAMBDA ps : MatchRest(s, e, ps)))
  \* $ also matches just before a newline that ends the string
  ELSE IF i = Len(s) /\ s[i] = "\n" THEN [ok |-> TRUE, parts |-> parts]
  ELSE NoMatch

\* _path_re.match(path) and match.captures('part')
MatchPath(s) ==
  IF KeyEnd(s, 1) > 1
  THEN Let(KeyEnd(s, 1), LAMBDA k :
       Let(IndexEnd(s, k), LAMBDA e :
         IF e > 0
         THEN MatchRest(s, e, <<SubSeq(s, 1, k - 1), SubSeq(s, k, e - 1)>>)
         ELSE MatchRest(s, k, <<SubSeq(s, 1, k - 1)>>)))
  ELSE IF IndexEnd(s, 1) > 0
  THEN Let(IndexEnd(s, 1), LAMBDA e : MatchRest(s, e, <<SubSeq(s, 1, e - 1)>>))
  ELSE NoMatch

(***************************************************************************)
(* Exceptions (types.py) and outcomes.  An outcome is a record whose err   *)
(* is "" on a normal return and the name of the exception class otherwise. *)
(***************************************************************************)
ValidationErrors ==
  {"ValidationError", "TypeValidationError", "TypeMismatchValidationError",
   "InvalidIterationError"}

LookupErrors == {"KeyError", "IndexError", "PathLookupError"}

(***************************************************************************)
(* split and join.  A component of a split path is a record [t, s, n]:     *)
(* t = "str" (key s), t = "int" (index n), or an iteration point of kind   *)
(* t = "range", "list" or "star" that keeps its path_part s.               *)
(***************************************************************************)
StrKey(s) == [t |-> "str", s |-> s, n |-> 0]
IntKey(n) == [t |-> "int", s |-> <<>>, n |-> n]
IterPoint(t, s) == [t |-> t, s |-> s, n |-> 0]

IsIterationPoint(part) == part.t \in {"range", "list", "star"}

\* Python s.split(':')
RECURSIVE SplitColon(_, _, _)
SplitColon(s, cur, acc) ==
  IF s = <<>> THEN Append(acc, cur)
  ELSE IF Head(s) = ":" THEN SplitColon(Tail(s), <<>>, Append(acc, cur))
  ELSE SplitColon(Tail(s), Append(cur, Head(s)), acc)

\* _RangeIterationPoint._parse_slice on the text between the brackets:
\* "" when the range is built, else the exception of int() or range()
_parse_slice(index) ==
  Let(SplitColon(index, <<>>, <<>>), LAMBDA parts :
    IF Len(parts) \notin {2, 3} THEN "ValueError"
    ELSE IF \E i \in 1..Len(parts) : parts[i] # <<>> /\ ~IntParses(parts[i])
    THEN "ValueError"
    ELSE IF Len(parts) = 3 /\ parts[3] # <<>> /\ ParseInt(parts[3]) = 0
    THEN "ValueError"
    ELSE "")

\* the body of the loop of _split_match for one captured part:
\* the component, or the exception int() or the slice constructor raises
PathPart(part) ==
  IF part[1] = "[" /\ part[Len(part)] = "]"
  THEN Let(SubSeq(part, 2, Len(part) - 1), LAMBDA index :
         IF Contains(index, ":")
         THEN [err |-> _parse_slice(index), part |-> IterPoint("range", part)]
         ELSE IF index # <<>>
         THEN IF IntParses(index)
              THEN [err |-> "", part |-> IntKey(ParseInt(index))]
              ELSE [err |-> "ValueError", part |-> IntKey(0)]
         ELSE [err |-> "", part |-> IterPoint("list", part)])
  ELSE IF Contains(part, "*") THEN [err |-> "", part |-> IterPoint("star", part)]
  ELSE [err |-> "", part |-> StrKey(part)]

RECURSIVE SplitParts(_, _, _)
SplitParts(parts, iter, acc) ==
  IF parts = <<>> THEN [err |-> "", sp |-> acc]
  ELSE Let(PathPart(Head(parts)), LAMBDA pp :
         IF pp.err # "" THEN [err |-> pp.err, sp |-> <<>>]
         ELSE IF ~iter /\ IsIterationPoint(pp.part)
         THEN [err |-> "InvalidIterationError", sp |-> <<>>]
         ELSE Let(Tail(parts), LAMBDA rest :
              Let(Append(acc, pp.part), LAMBDA acc2 : SplitParts(rest, iter, acc2))))

_split_match(parts, iter) == SplitParts(parts, iter, <<>>)

split(p, iter) ==
  IF p = <<>> THEN [err |-> "", sp |-> <<>>]
  ELSE Let(MatchPath(p), LAMBDA match :
         IF ~match.ok THEN [err |-> "ValidationError", sp |-> <<>>]
         ELSE _split_match(match.parts, iter))

\* one step of the loop of join: the path so far extended by one component
JoinPart(p, part) ==
  IF part.t = "str" THEN (IF p # <<>> THEN p \o <<".">> \o part.s ELSE part.s)
  ELSE IF part.t = "int"
  THEN (IF p # <<>> THEN p \o <<"[">> \o IntToStr(part.n) \o <<"]">>
        ELSE <<"[">> \o IntToStr(part.n) \o <<"]">>)
  ELSE IF part.t = "star" THEN (IF p # <<>> THEN p \o <<".">> \o part.s ELSE part.s)
  ELSE (IF p # <<>> THEN p \o part.s ELSE part.s)

RECURSIVE JoinFrom(_, _)
JoinFrom(p, sp) ==
  IF sp = <<>> THEN p
  ELSE Let(JoinPart(p, Head(sp)), LAMBDA q :
       Let(Tail(sp), LAMBDA rest : JoinFrom(q, rest)))

join(sp) == JoinFrom(<<>>, sp)

\* validate_path: "" on return, else the exception
validate_path(p, iter) ==
  IF p = <<>> THEN ""
  ELSE Let(MatchPath(p), LAMBDA match :
         IF ~match.ok THEN "ValidationError"
         ELSE IF ~iter THEN _split_match(match.parts, FALSE).err
         ELSE "")

\* is_path: the returned bool, or the exception that escapes
is_path(p, iter) ==
  IF p = <<>> THEN [err |-> "", val |-> TRUE]
  ELSE Let(MatchPath(p), LAMBDA match :
         IF ~match.ok THEN [err |-> "", val |-> FALSE]
         ELSE IF iter THEN [err |-> "", val |-> TRUE]
         ELSE Let(_split_match(match.parts, FALSE).err, LAMBDA e :
                IF e = "" THEN [err |-> "", val |-> TRUE]
                ELSE IF e \in ValidationErrors THEN [err |-> "", val |-> FALSE]
                ELSE [err |-> e, val |-> FALSE]))

(***************************************************************************)
(* Values of the tree and the Python subscript operations on them.         *)
(***************************************************************************)
Leaf(v) == [kind |-> "leaf", keys |-> <<>>, items |-> <<>>, val |-> v]
MkList(items) == [kind |-> "list", keys |-> <<>>, items |-> items, val |-> 0]
MkDict(keys, items) == [kind |-> "dict", keys |-> keys, items |-> items, val |-> 0]

\* isinstance(obj, _collection_types)
IsCollection(obj) == obj.kind \in {"list", "dict"}

\* 1-based position of list index n (a negative index counts from the end),
\* 0 when Python raises IndexError
ListPos(obj, n) ==
  Let(IF n < 0 THEN Len(obj.items) + n + 1 ELSE n + 1, LAMBDA pos :
    IF pos >= 1 /\ pos <= Len(obj.items) THEN pos ELSE 0)

\* 1-based position of key k in the dict, 0 when Python raises KeyError
DictPos(obj, k) ==
  IF \E i \in 1..Len(obj.keys) : obj.keys[i] = k
  THEN CHOOSE i \in 1..Len(obj.keys) : obj.keys[i] = k
  ELSE 0

\* position of a validated key in its collection, 0 when absent
KeyPos(obj, key) ==
  IF key.t = "int" THEN ListPos(obj, key.n) ELSE DictPos(obj, key.s)

\* the LookupError subclass obj[key] raises for an absent key
MissingError(key) == IF key.t = "int" THEN "IndexError" ELSE "KeyError"

\* obj[key]
GetItem(obj, key) ==
  Let(KeyPos(obj, key), LAMBDA pos :
    IF pos = 0 THEN [err |-> MissingError(key), val |-> obj]
    ELSE [err |-> "", val |-> obj.items[pos]])

RemoveAt(seq, i) == SubSeq(seq, 1, i - 1) \o SubSeq(seq, i + 1, Len(seq))

\* obj[key] = v : the mutated collection
SetItem(obj, key, v) ==
  Let(KeyPos(obj, key), LAMBDA pos :
    IF pos = 0
    THEN IF key.t = "int" THEN [err |-> "IndexError", val |-> obj]
         ELSE [err |-> "",
               val |-> [obj EXCEPT !.keys = Append(@, key.s), !.items = Append(@, v)]]
    ELSE [err |-> "", val |-> [obj EXCEPT !.items[pos] = v]])

\* del obj[key] : the mutated collection
DelItem(obj, key) ==
  Let(KeyPos(obj, key), LAMBDA pos :
    IF pos = 0 THEN [err |-> MissingError(key), val |-> obj]
    ELSE [err |-> "",
          val |-> IF key.t = "int"
                  THEN [obj EXCEPT !.items = RemoveAt(@, pos)]
                  ELSE [obj EXCEPT !.keys = RemoveAt(@, pos),
                                   !.items = RemoveAt(@, pos)]])

(***************************************************************************)
(* The resolver.                                                           *)
(***************************************************************************)
\* as _validate_key_collection_type, without the check of the key's kind
\* against the collection's kind
_validate_NoMismatch(obj, key) ==
  IF IsIterationPoint(key) THEN "TypeError"
  ELSE IF ~IsCollection(obj) THEN "TypeValidationError"
  ELSE ""

\* "" when the pair is accepted, else the exception
_validate_key_collection_type(obj, key) ==
  IF IsIterationPoint(key) THEN "TypeError"
  ELSE IF ~IsCollection(obj) THEN "TypeValidationError"
  ELSE IF key.t = "int" /\ obj.kind # "list" THEN "TypeMismatchValidationError"
  ELSE IF key.t = "str" /\ obj.kind # "dict" THEN "TypeMismatchValidationError"
  ELSE ""

\* re-raises the exception under its own class, with the path prepended
_contextual_validate_key_collection_type(obj, key) ==
  _validate_key_collection_type(obj, key)

\* the outcome of _leaf: the leaf collection obj, the leaf key, and the
\* split path at which obj sits below the root
LeafAt(err, obj, key, at) == [err |-> err, obj |-> obj, key |-> key, at |-> at]

\* as LeafWalk, letting the LookupError of a missing intermediate through
RECURSIVE LeafWalk_PlainLookup(_, _, _)
LeafWalk_PlainLookup(obj, sp, at) ==
  IF sp = <<>> THEN LeafAt("IndexError", obj, IntKey(0), at)
  ELSE Let(Head(sp), LAMBDA key :
       Let(_contextual_validate_key_collection_type(obj, key), LAMBDA e :
         IF e # "" THEN LeafAt(e, obj, key, at)
         ELSE IF Len(sp) = 1 THEN LeafAt("", obj, key, at)
         ELSE Let(GetItem(obj, key), LAMBDA it :
                IF it.err # "" THEN LeafAt(it.err, obj, key, at)
                ELSE Let(<<it.val, Tail(sp), Append(at, key)>>, LAMBDA a :
                       LeafWalk_PlainLookup(a[1], a[2], a[3])))))

\* _leaf from the object reached so far: at is the split path walked to obj
RECURSIVE LeafWalk(_, _, _)
LeafWalk(obj, sp, at) ==
  IF sp = <<>> THEN LeafAt("IndexError", obj, IntKey(0), at)
  ELSE Let(Head(sp), LAMBDA key :
       Let(_contextual_validate_key_collection_type(obj, key), LAMBDA e :
         IF e # "" THEN LeafAt(e, obj, key, at)
         ELSE IF Len(sp) = 1 THEN LeafAt("", obj, key, at)
         ELSE Let(GetItem(obj, key), LAMBDA it :
                IF it.err # "" THEN LeafAt("PathLookupError", obj, key, at)
                ELSE Let(<<it.val, Tail(sp), Append(at, key)>>, LAMBDA a :
                       LeafWalk(a[1], a[2], a[3])))))

_leaf(obj, sp) == LeafWalk(obj, sp, <<>>)

\* the root as seen after the collection found at split path at was mutated
\* in place into new
RECURSIVE Mutated(_, _, _)
Mutated(obj, at, new) ==
  IF at = <<>> THEN new
  ELSE Let(KeyPos(obj, Head(at)), LAMBDA pos :
       Let(Mutated(obj.items[pos], Tail(at), new), LAMBDA child :
         [obj EXCEPT !.items[pos] = child]))

\* an optional default: NO_DEFAULT is given = FALSE
NO_DEFAULT == [given |-> FALSE, val |-> Leaf(0)]
Given(v) == [given |-> TRUE, val |-> v]

\* as _get, returning a supplied default without looking the leaf up
_get_DefaultFirst(obj, sp, dflt) ==
  IF sp = <<>> THEN [err |-> "", val |-> obj]
  ELSE Let(_leaf(obj, sp), LAMBDA lf :
         IF lf.err # "" THEN [err |-> lf.err, val |-> obj]
         ELSE IF dflt.given THEN [err |-> "", val |-> dflt.val]
         ELSE Let(GetItem(lf.obj, lf.key), LAMBDA it :
                IF it.err = "" THEN it ELSE [err |-> it.err, val |-> obj]))

_get(obj, sp, dflt) ==
  IF sp = <<>> THEN [err |-> "", val |-> obj]
  ELSE Let(_leaf(obj, sp), LAMBDA lf :
         IF lf.err # "" THEN [err |-> lf.err, val |-> obj]
         ELSE Let(GetItem(lf.obj, lf.key), LAMBDA it :
                IF it.err = "" THEN it
                ELSE IF ~dflt.given THEN [err |-> it.err, val |-> obj]
                ELSE [err |-> "", val |-> dflt.val]))

\* the outcome of an operation: the exception or "", the returned value,
\* and the root object as the caller sees it afterwards
Outcome(err, val, rt) == [err |-> err, val |-> val, root |-> rt]

get(obj, p, dflt) ==
  Let(split(p, FALSE), LAMBDA s :
    IF s.err # "" THEN Outcome(s.err, obj, obj)
    ELSE Let(_get(obj, s.sp, dflt), LAMBDA g : Outcome(g.err, g.val, obj)))

leaf(obj, p) ==
  Let(split(p, FALSE), LAMBDA s :
    IF s.err # "" THEN LeafAt(s.err, obj, IntKey(0), <<>>)
    ELSE _leaf(obj, s.sp))

None == Leaf(0)

\* as put, assigning into a copy of the leaf collection
put_Detached(obj, p, v) ==
  Let(leaf(obj, p), LAMBDA lf :
    IF lf.err # "" THEN Outcome(lf.err, None, obj)
    ELSE Outcome(SetItem(lf.obj, lf.key, v).err, None, obj))

\* as put, appending when the index is the length of the List
put_Extend(obj, p, v) ==
  Let(leaf(obj, p), LAMBDA lf :
    IF lf.err # "" THEN Outcome(lf.err, None, obj)
    ELSE IF lf.obj.kind = "list" /\ lf.key.n = Len(lf.obj.items)
    THEN Outcome("", None, Mutated(obj, lf.at, [lf.obj EXCEPT !.items = Append(@, v)]))
    ELSE Let(SetItem(lf.obj, lf.key, v), LAMBDA set :
           Outcome(set.err, None, Mutated(obj, lf.at, set.val))))

put(obj, p, v) ==
  Let(leaf(obj, p), LAMBDA lf :
    IF lf.err # "" THEN Outcome(lf.err, None, obj)
    ELSE Let(SetItem(lf.obj, lf.key, v), LAMBDA set :
           Outcome(set.err, None, Mutated(obj, lf.at, set.val))))

\* as delete, swallowing the LookupError of an absent leaf
delete_Quiet(obj, p) ==
  Let(leaf(obj, p), LAMBDA lf :
    IF lf.err # "" THEN Outcome(lf.err, None, obj)
    ELSE Let(DelItem(lf.obj, lf.key), LAMBDA del :
           Outcome(IF del.err \in LookupErrors THEN "" ELSE del.err, None,
                   Mutated(obj, lf.at, del.val))))

\* as delete, removing the last element of a List whatever the index
delete_PopLast(obj, p) ==
  Let(leaf(obj, p), LAMBDA lf :
    IF lf.err # "" THEN Outcome(lf.err, None, obj)
    ELSE Let(IF lf.obj.kind = "list" /\ KeyPos(lf.obj, lf.key) # 0
             THEN DelItem(lf.obj, IntKey(0 - 1))
             ELSE DelItem(lf.obj, lf.key), LAMBDA del :
           Outcome(del.err, None, Mutated(obj, lf.at, del.val))))

delete(obj, p) ==
  Let(leaf(obj, p), LAMBDA lf :
    IF lf.err # "" THEN Outcome(lf.err, None, obj)
    ELSE Let(DelItem(lf.obj, lf.key), LAMBDA del :
           Outcome(del.err, None, Mutated(obj, lf.at, del.val))))

\* as discard, without the except clause
discard_Propagate(obj, p) ==
  Let(leaf(obj, p), LAMBDA lf :
    IF lf.err # "" THEN Outcome(lf.err, None, obj)
    ELSE Let(DelItem(lf.obj, lf.key), LAMBDA del :
           Outcome(del.err, None, Mutated(obj, lf.at, del.val))))

discard(obj, p) ==
  Let(leaf(obj, p), LAMBDA lf :
    IF lf.err # "" THEN Outcome(lf.err, None, obj)
    ELSE Let(DelItem(lf.obj, lf.key), LAMBDA del :
           Outcome(IF del.err \in LookupErrors THEN "" ELSE del.err, None,
                   Mutated(obj, lf.at, del.val))))

(***************************************************************************)
(* Iteration (iterate, _iterate and the iteration points of types.py).     *)
(* A generator is modelled by what a caller that drains it sees: the pairs *)
(* yielded, in order, and the exception that ended it ("" for none).       *)
(***************************************************************************)
Pair(p, v) == [p |-> p, v |-> v]
Yielded(err, out) == [err |-> err, out |-> out]

\* one item of an iteration point's iter(): the key and the element
Item(key, element) == [key |-> key, element |-> element]

\* _StarIterationPoint._match: the pattern's "*" is ".*?" (no newline), the
\* other characters are literal, "$" also matches before a final newline
RECURSIVE StarRe(_, _)
StarRe(pat, key) ==
  IF pat = <<>> THEN key = <<>> \/ key = <<"\n">>
  ELSE IF Head(pat) = "*"
  THEN \E n \in 0..Len(key) :
         /\ \A i \in 1..n : key[i] # "\n"
         /\ StarRe(Tail(pat), SubSeq(key, n + 1, Len(key)))
  ELSE key # <<>> /\ Head(key) = Head(pat) /\ StarRe(Tail(pat), Tail(key))

_match(path_part, key) == IF path_part = <<"*">> THEN TRUE ELSE StarRe(path_part, key)

\* as StarItems, yielding the "*"-key of the path in place of the key found
RECURSIVE StarItems_Pattern(_, _, _)
StarItems_Pattern(collection, path_part, i) ==
  IF i > Len(collection.items) THEN <<>>
  ELSE IF _match(path_part, collection.keys[i])
  THEN <<Item(StrKey(path_part), collection.items[i])>>
       \o StarItems_Pattern(collection, path_part, i + 1)
  ELSE StarItems_Pattern(collection, path_part, i + 1)

\* _StarIterationPoint.iter: the items of the dict, in order, whose key matches
RECURSIVE StarItems(_, _, _)
StarItems(collection, path_part, i) ==
  IF i > Len(collection.items) THEN <<>>
  ELSE IF _match(path_part, collection.keys[i])
  THEN <<Item(StrKey(collection.keys[i]), collection.items[i])>>
       \o StarItems(collection, path_part, i + 1)
  ELSE StarItems(collection, path_part, i + 1)

\* as ListItems, from the last index down
ListItems_Descending(collection) ==
  [i \in 1..Len(collection.items) |->
     Item(IntKey(Len(collection.items) - i),
          collection.items[Len(collection.items) + 1 - i])]

\* _ListIterationPoint.iter: enumerate(collection)
ListItems(collection) ==
  [i \in 1..Len(collection.items) |-> Item(IntKey(i - 1), collection.items[i])]

\* the range _parse_slice builds from the text between the brackets; a stop
\* that is left out is sys.maxsize, which no index of a list reaches
SliceRange(index) ==
  Let(SplitColon(index, <<>>, <<>>), LAMBDA parts :
    [start |-> IF parts[1] # <<>> THEN ParseInt(parts[1]) ELSE 0,
     bounded |-> parts[2] # <<>>,
     stop |-> IF parts[2] # <<>> THEN ParseInt(parts[2]) ELSE 0,
     step |-> IF Len(parts) = 3 /\ parts[3] # <<>> THEN ParseInt(parts[3]) ELSE 1])

\* index is a member of the range r that the loop of iter has come to
InRange(r, index) ==
  IF r.step > 0 THEN (~r.bounded \/ index < r.stop)
  ELSE r.bounded /\ index > r.stop

\* _RangeIterationPoint.iter from index on: stops at the end of the range
\* and at the first IndexError
RECURSIVE RangeItems(_, _, _)
RangeItems(collection, r, index) ==
  IF ~InRange(r, index) THEN <<>>
  ELSE Let(GetItem(collection, IntKey(index)), LAMBDA it :
         IF it.err # "" THEN <<>>
         ELSE <<Item(IntKey(index), it.val)>>
              \o RangeItems(collection, r, index + r.step))

\* as IterCheck, without a check for "[]" and slices
IterCheck_StarOnly(iter_point, collection) ==
  IF iter_point.t = "star"
  THEN (IF collection.kind = "dict" THEN "" ELSE "InvalidIterationError")
  ELSE ""

\* iter_point.check(collection): "" or the exception
IterCheck(iter_point, collection) ==
  IF iter_point.t = "star"
  THEN (IF collection.kind = "dict" THEN "" ELSE "InvalidIterationError")
  ELSE (IF collection.kind = "list" THEN "" ELSE "InvalidIterationError")

\* iter_point.iter(collection)
IterItems(iter_point, collection) ==
  IF iter_point.t = "star" THEN StarItems(collection, iter_point.s, 1)
  ELSE IF iter_point.t = "list" THEN ListItems(collection)
  ELSE Let(SliceRange(SubSeq(iter_point.s, 2, Len(iter_point.s) - 1)), LAMBDA r :
         RangeItems(collection, r, r.start))

\* index of the first iteration point of split_path, 0 when there is none
FirstIterIndex(split_path) ==
  IF \E i \in 1..Len(split_path) : IsIterationPoint(split_path[i])
  THEN CHOOSE i \in 1..Len(split_path) :
         /\ IsIterationPoint(split_path[i])
         /\ \A j \in 1..(i - 1) : ~IsIterationPoint(split_path[j])
  ELSE 0

\* _iterate, and its loop over the items of the iteration point from item i
\* on with out yielded so far
RECURSIVE IterateFrom(_, _, _, _), IterateItems(_, _, _, _, _, _)
IterateFrom(obj, split_path, base_path, dflt) ==
  IF ~IsCollection(obj) THEN Yielded("ValidationError", <<>>)
  ELSE Let(FirstIterIndex(split_path), LAMBDA iter_index :
    IF iter_index = 0
    THEN Let(_get(obj, split_path, dflt), LAMBDA g :
           IF g.err # "" THEN Yielded(g.err, <<>>)
           ELSE Yielded("", <<Pair(join(base_path \o split_path), g.val)>>))
    ELSE Let(SubSeq(split_path, 1, iter_index - 1), LAMBDA before_split_path :
         Let(_get(obj, before_split_path, NO_DEFAULT), LAMBDA c :
           IF c.err \in LookupErrors THEN Yielded("PathLookupError", <<>>)
           ELSE IF c.err # "" THEN Yielded(c.err, <<>>)
           ELSE IF IterCheck(split_path[iter_index], c.val) # ""
           THEN Yielded(IterCheck(split_path[iter_index], c.val), <<>>)
           ELSE Let(IterItems(split_path[iter_index], c.val), LAMBDA items :
                Let(SubSeq(split_path, iter_index + 1, Len(split_path)), LAMBDA after :
                Let(base_path \o before_split_path, LAMBDA prefix :
                  IterateItems(items, 1, after, prefix, dflt, <<>>)))))))

IterateItems(items, i, after_split_path, prefix, dflt, out) ==
  IF i > Len(items) THEN Yielded("", out)
  ELSE Let(Append(prefix, items[i].key), LAMBDA key_split_path :
    IF after_split_path # <<>>
    THEN Let(IterateFrom(items[i].element, after_split_path, key_split_path, dflt),
             LAMBDA r :
           IF r.err # "" THEN Yielded(r.err, out \o r.out)
           ELSE Let(out \o r.out, LAMBDA out2 :
                  IterateItems(items, i + 1, after_split_path, prefix, dflt, out2)))
    ELSE Let(Append(out, Pair(join(key_split_path), items[i].element)), LAMBDA out2 :
           IterateItems(items, i + 1, after_split_path, prefix, dflt, out2)))

_iterate(obj, split_path, base_path, dflt) ==
  IterateFrom(obj, split_path, base_path, dflt)

iterate(obj, p, dflt) ==
  Let(split(p, TRUE), LAMBDA s :
    IF s.err # "" THEN Yielded(s.err, <<>>)
    ELSE _iterate(obj, s.sp, <<>>, dflt))

(***************************************************************************)
(* Fold and unfold (folding.py).  A path dict is a Python dict from path   *)
(* strings to values: a sequence of entries [k, v] in insertion order.     *)
(* A partial list is a list of tuples (index, value).                      *)
(***************************************************************************)
\* Python's == on values: lists item by item, dicts key by key whatever the
\* insertion order
RECURSIVE EqualValues(_, _)
EqualValues(a, b) ==
  /\ a.kind = b.kind
  /\ Len(a.items) = Len(b.items)
  /\ a.kind = "leaf" => a.val = b.val
  /\ a.kind = "processed" => a.keys = b.keys
  /\ a.kind \in {"list", "tuple", "processed"} =>
       \A i \in 1..Len(a.items) : EqualValues(a.items[i], b.items[i])
  /\ a.kind = "dict" =>
       /\ {a.keys[i] : i \in 1..Len(a.keys)} = {b.keys[i] : i \in 1..Len(b.keys)}
       /\ \A i \in 1..Len(a.items) :
            EqualValues(a.items[i], b.items[DictPos(b, a.keys[i])])

\* split_path[:-1] and split_path[-1]
Front(sp) == SubSeq(sp, 1, Len(sp) - 1)
Last(sp) == sp[Len(sp)]

Tuple(i, v) == [kind |-> "tuple", keys |-> <<>>, items |-> <<Leaf(i), v>>, val |-> 0]

Entry(k, v) == [k |-> k, v |-> v]

\* position of key k in the path dict, 0 when absent
PdPos(pd, k) ==
  IF \E i \in 1..Len(pd) : pd[i].k = k
  THEN CHOOSE i \in 1..Len(pd) : pd[i].k = k
  ELSE 0

\* path_dict[k] = v
PdSet(pd, k, v) ==
  Let(PdPos(pd, k), LAMBDA pos :
    IF pos = 0 THEN Append(pd, Entry(k, v)) ELSE [pd EXCEPT ![pos].v = v])

\* tuple(path_dict.keys())
PdKeys(pd) == [i \in 1..Len(pd) |-> pd[i].k]

\* the key under which the loop of _fold_path_dict finds child i of element
ChildKey(element, i) ==
  IF element.kind = "list" THEN IntKey(i - 1) ELSE StrKey(element.keys[i])

\* _fold_path_dict: the path dict after folding element found at at_path,
\* or the ValidationError for a root that is no collection
RECURSIVE FoldInto(_, _, _), FoldChildren(_, _, _, _)
FoldInto(pd, at_path, element) ==
  IF IsCollection(element) THEN FoldChildren(pd, at_path, element, 1)
  ELSE IF at_path # <<>>
  THEN [err |-> "", pd |-> PdSet(pd, join(at_path), element)]
  ELSE [err |-> "ValidationError", pd |-> pd]

\* the loop over the children of element, from child i on
FoldChildren(pd, at_path, element, i) ==
  IF i > Len(element.items) THEN [err |-> "", pd |-> pd]
  ELSE Let(FoldInto(pd, Append(at_path, ChildKey(element, i)), element.items[i]),
           LAMBDA r : IF r.err # "" THEN r
                      ELSE FoldChildren(r.pd, at_path, element, i + 1))

_fold_path_dict(pd, at_path, element) == FoldInto(pd, at_path, element)

fold_path_dict(rt, root_path) ==
  Let(split(root_path, FALSE), LAMBDA s :
    IF s.err # "" THEN [err |-> s.err, pd |-> <<>>]
    ELSE _fold_path_dict(<<>>, s.sp, rt))

\* a processor: for each hook, whether a subclass overrides it.  A hook of
\* the base class returns its argument; an overriding hook is modelled by one
\* that returns its argument wrapped, which shows in the result
Processed(hook, v) == [kind |-> "processed", keys |-> <<hook>>, items |-> <<v>>, val |-> 0]
_default_processor == [leaf |-> FALSE, list |-> FALSE, dict |-> FALSE]

process_list(processor, list_) ==
  IF processor.list THEN Processed("process_list", list_) ELSE list_
process_dict(processor, dict_) ==
  IF processor.dict THEN Processed("process_dict", dict_) ELSE dict_
process_leaf(processor, v) ==
  IF processor.leaf THEN Processed("process_leaf", v) ELSE v

\* Python's < on two values is defined: numbers, and lists or tuples whose
\* first differing items it is defined on
RECURSIVE Orderable(_, _)
Orderable(a, b) ==
  IF a.kind = "leaf" /\ b.kind = "leaf" THEN TRUE
  ELSE IF a.kind \in {"list", "tuple"} /\ b.kind = a.kind
  THEN \A i \in 1..Len(a.items) :
         (/\ i <= Len(b.items)
          /\ ~EqualValues(a.items[i], b.items[i])
          /\ \A j \in 1..(i - 1) : EqualValues(a.items[j], b.items[j]))
         => Orderable(a.items[i], b.items[i])
  ELSE FALSE

\* Python's a < b on orderable values
RECURSIVE Less(_, _)
Less(a, b) ==
  IF a.kind = "leaf" THEN a.val < b.val
  ELSE IF \E i \in 1..Len(a.items) :
            i <= Len(b.items) /\ ~EqualValues(a.items[i], b.items[i])
  THEN Let(CHOOSE i \in 1..Len(a.items) :
             /\ i <= Len(b.items) /\ ~EqualValues(a.items[i], b.items[i])
             /\ \A j \in 1..(i - 1) : EqualValues(a.items[j], b.items[j]),
           LAMBDA i : Less(a.items[i], b.items[i]))
  ELSE Len(a.items) < Len(b.items)

\* insertion of an item in sorted order: partial_list.sort()
RECURSIVE SortedInsert(_, _)
SortedInsert(sorted, t) ==
  IF sorted = <<>> THEN <<t>>
  ELSE IF Less(t, Head(sorted)) THEN <<t>> \o sorted
  ELSE <<Head(sorted)>> \o SortedInsert(Tail(sorted), t)

RECURSIVE SortPairs(_)
SortPairs(pairs) ==
  IF pairs = <<>> THEN <<>>
  ELSE SortedInsert(SortPairs(SubSeq(pairs, 1, Len(pairs) - 1)), pairs[Len(pairs)])

\* partial_list.sort() raises TypeError: two items that differ have to be
\* compared and < is not defined on them
SortRaises(pairs) ==
  \E i, j \in 1..Len(pairs) :
    ~EqualValues(pairs[i], pairs[j]) /\ ~Orderable(pairs[i], pairs[j])

\* "for index, value in partial_list" can unpack the item
Unpacks(item) == item.kind \in {"list", "tuple"} /\ Len(item.items) = 2

\* the loop of _complete_partial_list over the sorted pairs
RECURSIVE CompleteFrom(_, _, _)
CompleteFrom(pairs, last_index, complete_list) ==
  IF pairs = <<>> THEN [err |-> "", val |-> MkList(complete_list)]
  ELSE IF ~Unpacks(Head(pairs)) THEN [err |-> "TypeError", val |-> MkList(<<>>)]
  ELSE IF Head(pairs).items[1] # Leaf(last_index + 1)
  THEN [err |-> "ValidationError", val |-> MkList(<<>>)]
  ELSE Let(Append(complete_list, Head(pairs).items[2]), LAMBDA cl :
         CompleteFrom(Tail(pairs), last_index + 1, cl))

\* _complete_partial_list on a list of (index, value) tuples
_complete_partial_list(partial_list) ==
  IF SortRaises(partial_list.items) THEN [err |-> "TypeError", val |-> MkList(<<>>)]
  ELSE CompleteFrom(SortPairs(partial_list.items), 0 - 1, <<>>)

safety_limit == 1000000

\* the outcome of one pass of the first for loop of unfold_path_dict
PassOutcome(err, pd, did_any) == [err |-> err, pd |-> pd, did_any |-> did_any]

\* the body of the first for loop for the entry at position i, whose path
\* has path_length components: the path dict afterwards, or the exception
UnfoldEntry(pd, processor, i) ==
  Let(split(pd[i].k, FALSE).sp, LAMBDA split_path :
  Let(join(Front(split_path)), LAMBDA parent :
  Let(Last(split_path), LAMBDA key :
  Let(IF key.t = "int" THEN MkList(<<>>) ELSE MkDict(<<>>, <<>>), LAMBDA default_collection :
  \* collection = path_dict.setdefault(parent, default_collection)
  Let(IF PdPos(pd, parent) = 0 THEN Append(pd, Entry(parent, default_collection)) ELSE pd,
      LAMBDA pd1 :
  Let(pd1[PdPos(pd1, parent)].v, LAMBDA collection :
  Let(process_leaf(processor, pd[i].v), LAMBDA v :
    IF key.t = "int" /\ collection.kind = "list"
    THEN [err |-> "",
          pd |-> PdSet(pd1, parent, [collection EXCEPT !.items = Append(@, Tuple(key.n, v))])]
    ELSE IF key.t = "str" /\ collection.kind = "dict"
    THEN [err |-> "", pd |-> PdSet(pd1, parent, SetItem(collection, key, v).val)]
    ELSE [err |-> "ValidationError", pd |-> pd1])))))))

\* the first for loop, "for path, value in path_dict.items()", about to take
\* entry i: the dict iterator raises RuntimeError when the dict has another
\* size than the size n it had when the loop began
RECURSIVE UnfoldPass(_, _, _, _, _, _)
UnfoldPass(pd, processor, path_length, i, n, did_any) ==
  IF Len(pd) # n THEN PassOutcome("RuntimeError", pd, did_any)
  ELSE IF i > n THEN PassOutcome("", pd, did_any)
  ELSE IF Len(split(pd[i].k, FALSE).sp) # path_length
  THEN UnfoldPass(pd, processor, path_length, i + 1, n, did_any)
  ELSE Let(UnfoldEntry(pd, processor, i), LAMBDA r :
         IF r.err # "" THEN PassOutcome(r.err, r.pd, TRUE)
         ELSE UnfoldPass(r.pd, processor, path_length, i + 1, n, TRUE))

\* the second for loop: every list found at a path of path_length
\* components is completed
RECURSIVE CompleteLists(_, _, _, _)
CompleteLists(pd, processor, path_length, i) ==
  IF i > Len(pd) THEN [err |-> "", pd |-> pd]
  ELSE IF Len(split(pd[i].k, FALSE).sp) = path_length /\ pd[i].v.kind = "list"
  THEN Let(_complete_partial_list(pd[i].v), LAMBDA c :
         IF c.err # "" THEN [err |-> c.err, pd |-> pd]
         ELSE Let([pd EXCEPT ![i].v = process_list(processor, c.val)], LAMBDA pd1 :
                CompleteLists(pd1, processor, path_length, i + 1)))
  ELSE CompleteLists(pd, processor, path_length, i + 1)

\* the while loop of unfold_path_dict with limit passes left.  A pass that
\* did something and raised nothing leaves the keys and path_length as they
\* were, so every later pass does the same until the limit is used up; and
\* below length 0 no entry is ever found again.
RECURSIVE UnfoldLoop(_, _, _, _)
UnfoldLoop(pd, processor, path_length, limit) ==
  IF PdKeys(pd) = <<<<>>>> THEN [err |-> "", pd |-> pd]
  ELSE IF limit = 0 THEN [err |-> "RuntimeError", pd |-> pd]
  ELSE Let(UnfoldPass(pd, processor, path_length, 1, Len(pd), FALSE), LAMBDA pass :
         IF pass.err # "" THEN [err |-> pass.err, pd |-> pass.pd]
         ELSE IF pass.did_any \/ path_length < 0
         THEN [err |-> "RuntimeError", pd |-> pass.pd]
         ELSE Let(CompleteLists(pass.pd, processor, path_length - 1, 1), LAMBDA c :
                IF c.err # "" THEN c
                ELSE UnfoldLoop(c.pd, processor, path_length - 1, limit - 1)))

\* the first exception split raises on a key of paths, "" when there is none
RECURSIVE SplitError(_, _)
SplitError(paths, i) ==
  IF i > Len(paths) THEN ""
  ELSE IF split(paths[i].k, FALSE).err # "" THEN split(paths[i].k, FALSE).err
  ELSE SplitError(paths, i + 1)

\* max([len(split(path)) for path in paths])
MaxPathLength(paths) ==
  CHOOSE m \in {Len(split(paths[i].k, FALSE).sp) : i \in 1..Len(paths)} :
    \A i \in 1..Len(paths) : Len(split(paths[i].k, FALSE).sp) <= m

\* unfold_path_dict: val is the returned root
\* path dict (root_path) or its value at "" (not root_path)
unfold_path_dict(paths, processor, root_path) ==
  IF paths = <<>> THEN [err |-> "ValidationError", pd |-> <<>>, val |-> None]
  ELSE IF PdPos(paths, <<>>) # 0 /\ ~IsCollection(paths[PdPos(paths, <<>>)].v)
  THEN [err |-> "ValidationError", pd |-> <<>>, val |-> None]
  ELSE IF SplitError(paths, 1) # ""
  THEN [err |-> SplitError(paths, 1), pd |-> <<>>, val |-> None]
  ELSE Let(UnfoldLoop(paths, processor, MaxPathLength(paths), safety_limit), LAMBDA r :
         IF r.err # "" THEN [err |-> r.err, pd |-> <<>>, val |-> None]
         ELSE IF root_path THEN [err |-> "", pd |-> r.pd, val |-> None]
         ELSE [err |-> "", pd |-> <<>>, val |-> r.pd[PdPos(r.pd, <<>>)].v])

(***************************************************************************)
(* The grammar as a state machine: a caller holds a string and calls       *)
(* split, then join on the result, validate_path and is_path.              *)
(***************************************************************************)
NoOutcome == [err |-> "", val |-> None]

\* no tree operation in this state machine
TreeIdle ==
  /\ root = None /\ op = "none" /\ path = <<>> /\ value = None
  /\ default = NO_DEFAULT
  /\ res = NoOutcome /\ old = None /\ yielded = <<>>

\* nothing folded or unfolded in this state machine
NoTable == [err |-> "", pd |-> <<>>]
NoUnfolded == [err |-> "", pd |-> <<>>, val |-> None]
FoldIdle ==
  /\ tree = None /\ base = <<>> /\ table = NoTable
  /\ proc = _default_processor /\ wrap = FALSE /\ partial = MkList(<<>>)
  /\ unf = NoUnfolded /\ fpc = "idle"

InitPath ==
  /\ str \in Strings
  /\ iterable \in BOOLEAN
  /\ pc = "start"
  /\ sres = [err |-> "", sp |-> <<>>]
  /\ jres = <<>>
  /\ vres = ""
  /\ ires = [err |-> "", val |-> FALSE]
  /\ TreeIdle
  /\ FoldIdle

DoSplit ==
  /\ pc = "start"
  /\ sres' = split(str, iterable)
  /\ pc' = "split"
  /\ UNCHANGED <<str, iterable, jres, vres, ires>>
  /\ UNCHANGED <<treeVars, foldVars>>

DoJoin ==
  /\ pc = "split" /\ sres.err = ""
  /\ jres' = join(sres.sp)
  /\ pc' = "joined"
  /\ UNCHANGED <<str, iterable, sres, vres, ires>>
  /\ UNCHANGED <<treeVars, foldVars>>

DoValidate ==
  /\ pc \in {"split", "joined"}
  /\ vres' = validate_path(str, iterable)
  /\ ires' = is_path(str, iterable)
  /\ pc' = "validated"
  /\ UNCHANGED <<str, iterable, sres, jres>>
  /\ UNCHANGED <<treeVars, foldVars>>

NextPath == DoSplit \/ DoJoin \/ DoValidate

SpecPath == InitPath /\ [][NextPath]_vars

(***************************************************************************)
(* The resolver as a state machine: a caller owns a tree and calls get,    *)
(* put, delete and discard on it.  op, path, value, default and res record *)
(* the last call and its outcome, old the tree before it.                  *)
(***************************************************************************)
Vals == {0, 1}
Keys == {<<"a">>, <<"b">>}

Leaves == {Leaf(v) : v \in Vals}

SeqsOver(S, n) == UNION {[1..m -> S] : m \in 0..n}

\* key sequences a dict is built with
KeySeqs == {<<>>, <<<<"a">>>>, <<<<"b">>>>, <<<<"a">>, <<"b">>>>}

ListsOver(S) == {MkList(items) : items \in SeqsOver(S, MaxList)}

DictsOver(S) ==
  UNION {{MkDict(ks, items) : items \in [1..Len(ks) -> S]} : ks \in KeySeqs}

Level1 == Leaves \cup ListsOver(Leaves) \cup DictsOver(Leaves)
Level2 == Leaves \cup ListsOver(Level1) \cup DictsOver(Level1)

\* number of values in a tree
RECURSIVE SumSizes(_, _)
Size(t) == 1 + SumSizes(t.items, Len(t.items))
SumSizes(items, n) ==
  IF n = 0 THEN 0
  ELSE 1 + SumSizes(items[n].items, Len(items[n].items)) + SumSizes(items, n - 1)

InitTrees == {t \in Level2 : Size(t) <= MaxSize}

\* the values put stores and get takes as default
Values == Leaves \cup {MkList(<<>>), MkDict(<<>>, <<>>)}
Defaults == {NO_DEFAULT, Given(Leaf(42))}

\* the path strings the caller passes: every path of one or two keys or
\* indexes, the root path, an iterating path and a string outside the grammar
Components == {StrKey(k) : k \in Keys} \cup {IntKey(n) : n \in (0 - 1)..MaxList}
SplitPaths == [1..1 -> Components] \cup [1..2 -> Components]
PathInputs ==
  {join(sp) : sp \in SplitPaths} \cup {<<>>, <<"[", "]">>, <<"a", "[">>}

PathIdle ==
  /\ str = <<>> /\ iterable = FALSE /\ pc = "idle"
  /\ sres = [err |-> "", sp |-> <<>>] /\ jres = <<>> /\ vres = ""
  /\ ires = [err |-> "", val |-> FALSE]

Init ==
  /\ root \in InitTrees
  /\ op = "none" /\ path = <<>> /\ value = None /\ default = NO_DEFAULT
  /\ res = NoOutcome
  /\ old = root
  /\ yielded = <<>>
  /\ PathIdle
  /\ FoldIdle

\* the caller's call returned or raised: record it
Called(name, p, v, d, r) ==
  /\ op' = name /\ path' = p /\ value' = v /\ default' = d
  /\ res' = [err |-> r.err, val |-> r.val]
  /\ root' = r.root
  /\ old' = root
  /\ UNCHANGED yielded
  /\ UNCHANGED <<pathVars, foldVars>>

Get ==
  /\ op = "none"
  /\ \E p \in PathInputs, d \in Defaults :
       \E r \in {get(root, p, d)} : Called("get", p, None, d, r)

\* the caller stores nothing that makes the tree larger than MaxSize values
Put ==
  /\ op = "none"
  /\ \E p \in PathInputs, v \in Values :
       \E r \in {put(root, p, v)} :
         /\ Size(r.root) <= MaxSize
         /\ Called("put", p, v, NO_DEFAULT, r)

Delete ==
  /\ op = "none"
  /\ \E p \in PathInputs :
       \E r \in {delete(root, p)} : Called("delete", p, None, NO_DEFAULT, r)

Discard ==
  /\ op = "none"
  /\ \E p \in PathInputs :
       \E r \in {discard(root, p)} : Called("discard", p, None, NO_DEFAULT, r)

\* the caller is done with the outcome of the call and keeps the tree
Return ==
  /\ op # "none"
  /\ op' = "none" /\ path' = <<>> /\ value' = None /\ default' = NO_DEFAULT
  /\ res' = NoOutcome
  /\ old' = root
  /\ UNCHANGED <<root, yielded>>
  /\ UNCHANGED <<pathVars, foldVars>>

Next == Get \/ Put \/ Delete \/ Discard \/ Return

Spec == Init /\ [][Next]_vars

(***************************************************************************)
(* iterate as a state machine: the caller drains iterate(root, path,       *)
(* default) on a tree.                                                     *)
(***************************************************************************)
MaxIterSize == 6

\* dicts with keys that are no literal key of the grammar: with a dot, empty,
\* a "*", an index in brackets
KeyTrees ==
  {MkDict(<<<<"a", ".", "b">>>>, <<Leaf(1)>>),
   MkDict(<<<<"a", ".", "b">>, <<"a">>>>, <<Leaf(0), MkDict(<<<<"b">>>>, <<Leaf(1)>>)>>),
   MkDict(<<<<>>>>, <<Leaf(1)>>),
   MkDict(<<<<"a">>>>, <<MkDict(<<<<>>>>, <<Leaf(1)>>)>>),
   MkDict(<<<<"*">>>>, <<Leaf(1)>>),
   MkDict(<<<<"[", "0", "]">>>>, <<Leaf(1)>>)}

\* the trees iterate is called on
IterTrees == {t \in Level2 : Size(t) <= MaxIterSize} \cup KeyTrees

\* the path strings iterate is called with
IterPaths ==
  {<<>>, <<"a">>, <<"b">>, <<"[", "0", "]">>, <<"[", "1", "]">>,
   <<"[", "-", "1", "]">>, <<"[", "0", "1", "]">>,
   <<"a", ".", "b">>, <<"a", "[", "0", "]">>, <<"[", "0", "]", ".", "a">>,
   <<"[", "0", "]", "[", "1", "]">>, <<"[">>,
   <<"[", "]">>, <<"[", "]", "[", "]">>, <<"a", "[", "]">>,
   <<"[", "]", ".", "a">>, <<"[", "0", "]", "[", "]">>,
   <<"[", "]", "[", "0", "]">>, <<"[", "0", "1", "]", "[", "]">>,
   <<"*">>, <<"a", "*">>, <<"*", "b">>, <<"a", ".", "*">>, <<"*", ".", "a">>,
   <<"*", "[", "]">>, <<"[", "]", ".", "*">>,
   <<"[", ":", "]">>, <<"[", "1", ":", "]">>, <<"[", ":", "1", "]">>,
   <<"[", ":", ":", "-", "1", "]">>, <<"[", "-", "1", ":", ":", "-", "1", "]">>,
   <<"[", ":", ":", "0", "]">>, <<"[", "]", "[", "1", ":", "]">>,
   <<"[", "-", "1", ":", "]">>, <<"[", ":", "-", "1", "]">>,
   <<"[", ":", ":", "2", "]">>, <<"[", "1", ":", "0", ":", "-", "1", "]">>,
   <<"[", "2", ":", "0", ":", "-", "1", "]">>}

InitIter ==
  /\ root \in IterTrees
  /\ op = "none" /\ path = <<>> /\ value = None /\ default = NO_DEFAULT
  /\ res = NoOutcome
  /\ old = root
  /\ yielded = <<>>
  /\ PathIdle
  /\ FoldIdle

\* list(iterate(root, p, d)): the pairs yielded and the exception, if any
Iterate ==
  /\ op = "none"
  /\ \E p \in IterPaths, d \in Defaults :
       \E r \in {iterate(root, p, d)} :
         /\ op' = "iterate" /\ path' = p /\ default' = d
         /\ res' = [err |-> r.err, val |-> None]
         /\ yielded' = r.out
  /\ UNCHANGED <<root, value, old>>
  /\ UNCHANGED <<pathVars, foldVars>>

NextIter == Iterate

SpecIter == InitIter /\ [][NextIter]_vars

(***************************************************************************)
(* Fold and unfold as a state machine: the caller folds a tree under a     *)
(* root path and unfolds the path dict fold returned.                      *)
(***************************************************************************)
\* the root paths fold is called with: none, a key, an index written with a
\* leading zero, a string outside the grammar
FoldBases == {<<>>, <<"a">>, <<"[", "0", "1", "]">>, <<"[">>}

\* the trees fold is called with
FoldTrees == InitTrees \cup KeyTrees

\* the processors unfold is called with: the default one and one that
\* overrides the three hooks
Processors == {_default_processor, [leaf |-> TRUE, list |-> TRUE, dict |-> TRUE]}

InitFold ==
  /\ tree \in FoldTrees
  /\ base = <<>> /\ table = NoTable
  /\ proc = _default_processor /\ wrap = FALSE /\ partial = MkList(<<>>)
  /\ unf = NoUnfolded
  /\ fpc = "start"
  /\ PathIdle
  /\ TreeIdle

DoFold ==
  /\ fpc = "start"
  /\ \E b \in FoldBases :
       \E r \in {fold_path_dict(tree, b)} :
         /\ base' = b
         /\ table' = r
  /\ fpc' = "folded"
  /\ UNCHANGED <<tree, proc, wrap, partial, unf>>
  /\ UNCHANGED <<pathVars, treeVars>>

DoUnfold ==
  /\ fpc = "folded" /\ table.err = ""
  /\ \E pr \in Processors, w \in BOOLEAN :
       \E r \in {unfold_path_dict(table.pd, pr, w)} :
         /\ proc' = pr
         /\ wrap' = w
         /\ unf' = r
  /\ fpc' = "unfolded"
  /\ UNCHANGED <<tree, base, table, partial>>
  /\ UNCHANGED <<pathVars, treeVars>>

NextFold == DoFold \/ DoUnfold

SpecFold == InitFold /\ [][NextFold]_vars

(***************************************************************************)
(* unfold_path_dict and _complete_partial_list on the caller's own path    *)
(* dicts and partial lists.                                                *)
(***************************************************************************)
MaxEntries == 3
MaxPairs == 3

\* the keys of the path dicts and the values found under each
TableKeys ==
  {<<>>, <<"a">>, <<"b">>, <<"a", ".", "b">>, <<"a", "[", "0", "]">>,
   <<"[", "0", "]">>, <<"[", "1", "]">>, <<"[", "2", "]">>}

TableValues(k) ==
  IF k = <<>> THEN {MkDict(<<>>, <<>>), MkList(<<>>), Leaf(0)}
  ELSE IF k = <<"a">> THEN {Leaf(0), MkDict(<<>>, <<>>), MkList(<<>>)}
  ELSE {Leaf(0), Leaf(1)}

TableEntries == UNION {{Entry(k, v) : v \in TableValues(k)} : k \in TableKeys}

\* a dict has every key once
Tables ==
  {t \in SeqsOver(TableEntries, MaxEntries) :
     \A i, j \in 1..Len(t) : t[i].k = t[j].k => i = j}

PartialPairs ==
  {Tuple(i, v) : i \in 0..2, v \in {Leaf(0), Leaf(1), MkDict(<<>>, <<>>)}}

PartialLists == {MkList(items) : items \in SeqsOver(PartialPairs, MaxPairs)}

InitUnfold ==
  /\ tree = None /\ base = <<>>
  /\ proc = _default_processor /\ wrap = FALSE
  /\ unf = NoUnfolded
  /\ \/ /\ fpc = "folded"
        /\ \E t \in Tables : table = [err |-> "", pd |-> t]
        /\ partial = MkList(<<>>)
     \/ /\ fpc = "partial"
        /\ table = NoTable
        /\ partial \in PartialLists
  /\ PathIdle
  /\ TreeIdle

DoComplete ==
  /\ fpc = "partial"
  /\ \E c \in {_complete_partial_list(partial)} :
       unf' = [err |-> c.err, pd |-> <<>>, val |-> c.val]
  /\ fpc' = "completed"
  /\ UNCHANGED <<tree, base, table, proc, wrap, partial>>
  /\ UNCHANGED <<pathVars, treeVars>>

NextUnfold == DoUnfold \/ DoComplete

SpecUnfold == InitUnfold /\ [][NextUnfold]_vars

(***************************************************************************)
(* C1: for every non-empty string s that split(s, iterable=True) accepts,  *)
(* join(split(s, iterable=True)) is character for character equal to s     *)
(* (and so join(split(s)) = s for every valid non-iterating path).         *)
(***************************************************************************)
C1_SplitJoinRoundTrip ==
  (pc = "joined" /\ str # <<>>) => jres = str

(***************************************************************************)
(* Notions the claims about the resolver are stated with.  They describe   *)
(* the tree before the call (old) and the path of the call structurally.   *)
(***************************************************************************)
\* the split path of the recorded call
CallPath == split(path, FALSE).sp

\* the recorded call passed a non-empty, valid, non-iterating path
CallHasPath == op # "none" /\ split(path, FALSE).err = "" /\ CallPath # <<>>

KindMatches(obj, key) ==
  \/ obj.kind = "list" /\ key.t = "int"
  \/ obj.kind = "dict" /\ key.t = "str"

\* what walking sp from obj meets first: a value that is no collection
\* ("nocollection"), a key of the wrong kind ("mismatch"), an absent
\* component before the last ("nointermediate"), or the last component,
\* absent ("noleaf") or present ("present")
RECURSIVE Meets(_, _)
Meets(obj, sp) ==
  IF ~IsCollection(obj) THEN "nocollection"
  ELSE IF ~KindMatches(obj, Head(sp)) THEN "mismatch"
  ELSE IF Len(sp) = 1
  THEN IF KeyPos(obj, Head(sp)) = 0 THEN "noleaf" ELSE "present"
  ELSE IF KeyPos(obj, Head(sp)) = 0 THEN "nointermediate"
  ELSE Meets(obj.items[KeyPos(obj, Head(sp))], Tail(sp))

\* the value found by following every component of sp (all present)
RECURSIVE Follow(_, _)
Follow(obj, sp) ==
  IF sp = <<>> THEN obj
  ELSE Follow(obj.items[KeyPos(obj, Head(sp))], Tail(sp))

\* obj with the value at split path at replaced by new
RECURSIVE Subst(_, _, _)
Subst(obj, at, new) ==
  IF at = <<>> THEN new
  ELSE LET i == KeyPos(obj, Head(at))
       IN  [obj EXCEPT !.items =
              [j \in 1..Len(obj.items) |->
                 IF j = i THEN Subst(obj.items[j], Tail(at), new)
                 ELSE obj.items[j]]]

\* the leaf is reached: every component but the last resolves
LeafReached == CallHasPath /\ Meets(old, CallPath) \in {"noleaf", "present"}

\* the leaf collection of the recorded call, before and after it
OldLeafObj == Follow(old, Front(CallPath))
NewLeafObj == Follow(root, Front(CallPath))
LeafKey == Last(CallPath)

\* the value a dict holds under key k
DictGet(obj, k) == obj.items[DictPos(obj, k)]
DictKeys(obj) == {obj.keys[i] : i \in 1..Len(obj.keys)}

(***************************************************************************)
(* C2: if put(T, p, v) returns without raising, an immediately following   *)
(* get(T, p) returns v.                                                    *)
(***************************************************************************)
C2_PutThenGet ==
  (op = "put" /\ res.err = "") =>
    /\ get(root, path, NO_DEFAULT).err = ""
    /\ get(root, path, NO_DEFAULT).val = value

\* a put that stored a new value two levels down has returned
C2_Witness ==
  /\ op = "put" /\ res.err = "" /\ root # old
  /\ Len(CallPath) = 2

(***************************************************************************)
(* C4 as stated: discard is idempotent, for a Map and for a List leaf      *)
(* collection: a second discard(T, p) does not raise and leaves the tree   *)
(* as the first call left it.                                              *)
(***************************************************************************)
C4_DiscardIdempotent ==
  (op = "discard" /\ res.err = "") =>
    /\ discard(root, path).err = ""
    /\ discard(root, path).root = root

(***************************************************************************)
(* C4 amended: a second discard(T, p) never raises; it leaves the tree as  *)
(* the first call left it when the leaf collection is a Map, and when it   *)
(* is a List whose index p is absent after the first call.                 *)
(***************************************************************************)
C4_DiscardTwice ==
  (op = "discard" /\ res.err = "") =>
    /\ discard(root, path).err = ""
    /\ (NewLeafObj.kind = "dict" \/ KeyPos(NewLeafObj, LeafKey) = 0)
         => discard(root, path).root = root

\* a discard has removed an entry
C4_Witness == op = "discard" /\ res.err = "" /\ root # old

(***************************************************************************)
(* C5: get with a non-empty path whose intermediate components resolve     *)
(* returns the stored value when the leaf is present, default or not;      *)
(* when the leaf is absent it returns the default if one was supplied and  *)
(* raises a LookupError kind (KeyError, IndexError) if none was; the tree  *)
(* is unchanged.                                                           *)
(***************************************************************************)
C5_GetDefault ==
  (op = "get" /\ LeafReached) =>
    /\ root = old
    /\ Meets(old, CallPath) = "present" =>
         res.err = "" /\ res.val = Follow(old, CallPath)
    /\ (Meets(old, CallPath) = "noleaf" /\ default.given) =>
         res.err = "" /\ res.val = default.val
    /\ (Meets(old, CallPath) = "noleaf" /\ ~default.given) =>
         res.err \in {"KeyError", "IndexError"}

\* a get with a default met an absent leaf below a present intermediate
C5_Witness ==
  /\ op = "get" /\ LeafReached /\ Len(CallPath) = 2
  /\ Meets(old, CallPath) = "noleaf" /\ default.given

(***************************************************************************)
(* C6: a missing intermediate component is never suppressed: get (default  *)
(* or not), put, delete and discard raise PathLookupError and the tree is  *)
(* unchanged.                                                              *)
(***************************************************************************)
C6_MissingIntermediate ==
  (CallHasPath /\ Meets(old, CallPath) = "nointermediate") =>
    res.err = "PathLookupError" /\ root = old

\* a discard met a missing intermediate
C6_Witness ==
  /\ op = "discard" /\ CallHasPath
  /\ Meets(old, CallPath) = "nointermediate"

(***************************************************************************)
(* C7: at every step of get, put, delete and discard an integer component  *)
(* on a Map or a string component on a List raises                         *)
(* TypeMismatchValidationError, a component on a value that is neither     *)
(* raises TypeValidationError, also when get has a default, and the tree   *)
(* is unchanged.                                                           *)
(***************************************************************************)
C7_TypeChecked ==
  /\ (CallHasPath /\ Meets(old, CallPath) = "mismatch") =>
       res.err = "TypeMismatchValidationError" /\ root = old
  /\ (CallHasPath /\ Meets(old, CallPath) = "nocollection") =>
       res.err = "TypeValidationError" /\ root = old

\* a get with a default applied the last of two components to the wrong kind
C7_Witness ==
  /\ op = "get" /\ default.given /\ CallHasPath /\ Len(CallPath) = 2
  /\ Meets(old, Front(CallPath)) = "present"
  /\ Meets(old, CallPath) = "mismatch"

(***************************************************************************)
(* C8: put never extends a List: with a List leaf collection of length n   *)
(* and a final index i >= n it raises IndexError and the tree is           *)
(* unchanged; with a Map leaf collection it succeeds for any string key,   *)
(* creating the key if absent and changing no other key.                   *)
(***************************************************************************)
C8_PutNeverExtends ==
  (op = "put" /\ LeafReached) =>
    /\ (OldLeafObj.kind = "list" /\ LeafKey.n >= Len(OldLeafObj.items)) =>
         res.err = "IndexError" /\ root = old
    /\ OldLeafObj.kind = "dict" =>
         /\ res.err = ""
         /\ NewLeafObj.kind = "dict"
         /\ DictKeys(NewLeafObj) = DictKeys(OldLeafObj) \cup {LeafKey.s}
         /\ Len(NewLeafObj.keys) = Cardinality(DictKeys(NewLeafObj))
         /\ DictGet(NewLeafObj, LeafKey.s) = value
         /\ \A k \in DictKeys(OldLeafObj) \ {LeafKey.s} :
              DictGet(NewLeafObj, k) = DictGet(OldLeafObj, k)

\* a put addressed the index just past the end of a non-empty List
C8_Witness ==
  /\ op = "put" /\ LeafReached
  /\ OldLeafObj.kind = "list" /\ Len(OldLeafObj.items) >= 1
  /\ LeafKey.n = Len(OldLeafObj.items)

(***************************************************************************)
(* C9: delete on a path whose intermediates resolve and whose final key or *)
(* index is absent raises KeyError (Map) or IndexError (List) and leaves   *)
(* the tree unchanged.                                                     *)
(***************************************************************************)
C9_DeleteAbsentRaises ==
  (op = "delete" /\ CallHasPath /\ Meets(old, CallPath) = "noleaf") =>
    /\ res.err = (IF OldLeafObj.kind = "dict" THEN "KeyError" ELSE "IndexError")
    /\ root = old

\* a delete met an absent leaf below a present intermediate
C9_Witness ==
  /\ op = "delete" /\ CallHasPath /\ Len(CallPath) = 2
  /\ Meets(old, CallPath) = "noleaf"

\* only the leaf collection of the recorded call differs between old and root
OnlyLeafObjChanged ==
  /\ root = Subst(old, Front(CallPath), NewLeafObj)
  /\ NewLeafObj.kind = OldLeafObj.kind

\* the Map lost exactly the key of the recorded call
DictLostKey ==
  /\ DictKeys(NewLeafObj) = DictKeys(OldLeafObj) \ {LeafKey.s}
  /\ Len(NewLeafObj.keys) = Cardinality(DictKeys(NewLeafObj))
  /\ \A k \in DictKeys(NewLeafObj) : DictGet(NewLeafObj, k) = DictGet(OldLeafObj, k)

\* the List lost exactly the element at 0-based position i
ListLostIndex(i) ==
  LET n == Len(OldLeafObj.items)
  IN  /\ Len(NewLeafObj.items) = n - 1
      /\ \A j \in 0..(n - 1) :
           /\ j < i => (j + 1 <= n - 1 /\ NewLeafObj.items[j + 1] = OldLeafObj.items[j + 1])
           /\ j > i => (j >= 1 /\ NewLeafObj.items[j] = OldLeafObj.items[j + 1])

(***************************************************************************)
(* C10 as stated: delete on an existing leaf removes exactly that entry:   *)
(* a Map loses the key and keeps every other key's value; a List of length *)
(* n and index i gets length n-1, keeps the elements before i, and each    *)
(* element formerly at j > i is at j-1.  Nothing else changes.             *)
(***************************************************************************)
C10_DeleteRemovesEntry ==
  (op = "delete" /\ CallHasPath /\ Meets(old, CallPath) = "present") =>
    /\ res.err = ""
    /\ OnlyLeafObjChanged
    /\ OldLeafObj.kind = "dict" => DictLostKey
    /\ OldLeafObj.kind = "list" => ListLostIndex(LeafKey.n)

(***************************************************************************)
(* C10 amended: as stated, where the index i of a List of length n stands  *)
(* for position i when i >= 0 and for position n+i when i is negative.     *)
(***************************************************************************)
C10_DeleteRemovesPosition ==
  (op = "delete" /\ CallHasPath /\ Meets(old, CallPath) = "present") =>
    /\ res.err = ""
    /\ OnlyLeafObjChanged
    /\ OldLeafObj.kind = "dict" => DictLostKey
    /\ OldLeafObj.kind = "list" =>
         ListLostIndex(IF LeafKey.n < 0 THEN Len(OldLeafObj.items) + LeafKey.n
                       ELSE LeafKey.n)

\* a delete removed the first of two elements of a List one level down
C10_Witness ==
  /\ op = "delete" /\ res.err = "" /\ CallHasPath /\ Len(CallPath) = 2
  /\ OldLeafObj.kind = "list" /\ Len(OldLeafObj.items) = 2
  /\ LeafKey.n = 0

\* the tree was folded under the root path "" and the path dict unfolded
\* k is a literal key of the grammar: not empty, without "[", "." and "*"
LiteralKey(k) ==
  k # <<>> /\ ~Contains(k, "[") /\ ~Contains(k, ".") /\ ~Contains(k, "*")

\* every key of every dict of the tree t is a literal key of the grammar
RECURSIVE LiteralKeys(_)
LiteralKeys(t) ==
  /\ \A i \in 1..Len(t.keys) : LiteralKey(t.keys[i])
  /\ \A i \in 1..Len(t.items) : LiteralKeys(t.items[i])

FoldedAndUnfolded ==
  /\ fpc = "unfolded" /\ base = <<>> /\ IsCollection(tree) /\ LiteralKeys(tree)
  /\ proc = _default_processor

\* C3: for every tree T whose root is a list or a dict,
\* unfold_path_dict(fold_path_dict(T)) returns a path dict whose value at ""
\* equals T, and with root_path=False returns a collection equal to T.
C3_FoldUnfoldRoundTrip ==
  FoldedAndUnfolded =>
    /\ unf.err = ""
    /\ wrap => /\ PdPos(unf.pd, <<>>) # 0
               /\ EqualValues(unf.pd[PdPos(unf.pd, <<>>)].v, tree)
    /\ ~wrap => EqualValues(unf.val, tree)

\* what the code does instead: unfolding what fold returned raises, for
\* every such tree
C3_UnfoldOfFoldRaises ==
  FoldedAndUnfolded =>
    unf.err = (IF table.pd = <<>> THEN "ValidationError" ELSE "RuntimeError")

C3_Reached == FoldedAndUnfolded /\ table.pd # <<>> /\ unf.err = "RuntimeError"

(***************************************************************************)
(* Notions the claims about iterate are stated with.                       *)
(***************************************************************************)
\* the split path of the recorded iterate call
IterPath == split(path, TRUE).sp

\* iterate was called with a path the grammar accepts
IterCalled == op = "iterate" /\ split(path, TRUE).err = ""

\* the kinds of the iteration points of sp
IterKinds(sp) == {sp[i].t : i \in 1..Len(sp)} \ {"str", "int"}

\* the position of the leftmost "[]" of sp, 0 when there is none
LeftmostEmpty(sp) ==
  IF \E i \in 1..Len(sp) : sp[i].t = "list"
  THEN CHOOSE i \in 1..Len(sp) :
         sp[i].t = "list" /\ \A j \in 1..(i - 1) : sp[j].t # "list"
  ELSE 0

\* what get finds at the concrete split path sp: the element, or the default
Found(rt, sp, dflt) ==
  IF sp = <<>> \/ Meets(rt, sp) = "present" THEN Follow(rt, sp) ELSE dflt.val

\* the pairs for sp with its "[]" replaced by concrete indexes, the leftmost
\* "[]" varying slowest, each list visited from index 0 to len-1; every
\* prefix before a "[]" resolves to a list
RECURSIVE Replaced(_, _, _), ReplacedFrom(_, _, _, _, _)
Replaced(rt, sp, dflt) ==
  IF LeftmostEmpty(sp) = 0 THEN <<Pair(join(sp), Found(rt, sp, dflt))>>
  ELSE ReplacedFrom(rt, sp, dflt, LeftmostEmpty(sp), 0)

ReplacedFrom(rt, sp, dflt, i, k) ==
  IF k >= Len(Follow(rt, SubSeq(sp, 1, i - 1)).items) THEN <<>>
  ELSE Replaced(rt, [sp EXCEPT ![i] = IntKey(k)], dflt)
       \o ReplacedFrom(rt, sp, dflt, i, k + 1)

SameKind(e1, e2) ==
  \/ e1 = e2
  \/ e1 \in ValidationErrors /\ e2 \in ValidationErrors
  \/ e1 \in LookupErrors /\ e2 \in LookupErrors

\* iterate was called with a valid path without iteration points
PlainIterCalled == IterCalled /\ IterKinds(IterPath) = {}

(***************************************************************************)
(* C12: for every root value and every valid path without iteration point  *)
(* (the empty path included), iterate(root, path, default) yields exactly  *)
(* the one pair (path, get(root, path, default)) when get returns, and     *)
(* raises the same kind of failure exactly when get raises.                *)
(***************************************************************************)
C12_IterateIsGet ==
  PlainIterCalled =>
    IF get(root, path, default).err = ""
    THEN /\ res.err = ""
         /\ yielded = <<Pair(path, get(root, path, default).val)>>
    ELSE /\ res.err # "" /\ SameKind(res.err, get(root, path, default).err)
         /\ yielded = <<>>

\* what holds instead: for a root that is a list or a dict, get and iterate
\* agree up to the rendering of the path, which is join(split(path))
C12_OnCollections ==
  (PlainIterCalled /\ IsCollection(root)) =>
    IF get(root, path, default).err = ""
    THEN /\ res.err = ""
         /\ yielded = <<Pair(join(IterPath), get(root, path, default).val)>>
    ELSE res.err = get(root, path, default).err /\ yielded = <<>>

\* the root is no collection and get returns it for the empty path
C12_RootValue == PlainIterCalled /\ ~IsCollection(root) /\ path = <<>> /\ res.err # ""

(***************************************************************************)
(* Notions the claims about the grammar are stated with.                   *)
(***************************************************************************)
\* a part the grammar captured that is an iteration component: "[]", a
\* slice, or a key with a "*"
IsIterPart(part) ==
  IF part[1] = "[" /\ part[Len(part)] = "]"
  THEN Len(part) = 2 \/ Contains(part, ":")
  ELSE Contains(part, "*")

\* the grammar accepts p and p has an iteration component
HasIterComponent(p) ==
  /\ p # <<>>
  /\ MatchPath(p).ok
  /\ \E i \in 1..Len(MatchPath(p).parts) : IsIterPart(MatchPath(p).parts[i])

(***************************************************************************)
(* C13: a path string with an iteration component ("[]", a slice, a key    *)
(* with "*") is rejected with InvalidIterationError by split(path) with    *)
(* iterable=False (and so by get, put, delete, discard and leaf), and      *)
(* is_path(path, iterable=False) returns False for it.                     *)
(***************************************************************************)
C13_IterationRejected ==
  (~iterable /\ HasIterComponent(str)) =>
    /\ pc \in {"split", "joined", "validated"} => sres.err = "InvalidIterationError"
    /\ pc = "validated" => ires = [err |-> "", val |-> FALSE]

\* what the code does for a slice whose numbers int() or range() refuse
C13_SliceValueError ==
  /\ ~iterable /\ HasIterComponent(str) /\ pc = "validated"
  /\ sres.err = "ValueError" /\ ires.err = "ValueError"

\* the leftmost iteration point of the recorded call, the split path before
\* it and the split path after it
FirstPoint == IterPath[FirstIterIndex(IterPath)]
BeforeFirst == SubSeq(IterPath, 1, FirstIterIndex(IterPath) - 1)
AfterFirst == SubSeq(IterPath, FirstIterIndex(IterPath) + 1, Len(IterPath))

\* iterate was called with a path that has an iteration point, and the path
\* before the leftmost one resolves in the tree
ReachesFirstPoint ==
  /\ IterCalled /\ IterKinds(IterPath) # {}
  /\ (BeforeFirst = <<>> \/ Meets(root, BeforeFirst) = "present")

\* the value the leftmost iteration point is applied to
AtFirstPoint == Follow(root, BeforeFirst)

\* the kind of collection an iteration point requires
RequiredKind(point) == IF point.t = "star" THEN "dict" ELSE "list"

(***************************************************************************)
(* C14 as stated: when iterate reaches an iteration point, "[]" or a slice *)
(* applied to anything that is not a list, and a "*" key applied to        *)
(* anything that is not a dict, raises InvalidIterationError before any    *)
(* pair for that iteration point is yielded.                               *)
(***************************************************************************)
C14_WrongKindInvalidIteration ==
  (ReachesFirstPoint /\ AtFirstPoint.kind # RequiredKind(FirstPoint)) =>
    res.err = "InvalidIterationError" /\ yielded = <<>>

(***************************************************************************)
(* C14 amended: a wrong kind never silently yields nothing.  If the value  *)
(* iteration starts from (the root, or an element handed down by the       *)
(* iteration point before) is neither list nor dict, iterate raises a      *)
(* plain ValidationError; otherwise, if the path before the iteration      *)
(* point resolves to a value of another kind than the required one,        *)
(* iterate raises InvalidIterationError; no pair for that iteration point  *)
(* is yielded in either case.                                              *)
(***************************************************************************)
C14_WrongKindRaises ==
  /\ (IterCalled /\ IterKinds(IterPath) # {} /\ ~IsCollection(root)) =>
       res.err = "ValidationError" /\ yielded = <<>>
  /\ (ReachesFirstPoint /\ IsCollection(root)
        /\ AtFirstPoint.kind # RequiredKind(FirstPoint)) =>
       res.err = "InvalidIterationError" /\ yielded = <<>>
  /\ (ReachesFirstPoint /\ IsCollection(root) /\ FirstPoint.t = "list"
        /\ AtFirstPoint.kind = "list" /\ AfterFirst # <<>>) =>
       /\ (\E i \in 1..Len(AtFirstPoint.items) : ~IsCollection(AtFirstPoint.items[i]))
            => res.err # ""
       /\ (AtFirstPoint.items # <<>> /\ ~IsCollection(AtFirstPoint.items[1]))
            => res.err = "ValidationError" /\ yielded = <<>>

\* a dict under "[]" raises InvalidIterationError; and the second "[]" of
\* "[][]" meets an element that is no collection after a pair was yielded
C14_Witness ==
  /\ ReachesFirstPoint /\ FirstPoint.t = "list" /\ AfterFirst # <<>>
  /\ IterKinds(AfterFirst) = {"list"}
  /\ AtFirstPoint.kind = "list" /\ Len(AtFirstPoint.items) = 2
  /\ AtFirstPoint.items[1].kind = "list" /\ AtFirstPoint.items[1].items # <<>>
  /\ ~IsCollection(AtFirstPoint.items[2])
  /\ res.err = "ValidationError" /\ yielded # <<>>

C14_WitnessInvalidIteration ==
  /\ ReachesFirstPoint /\ FirstPoint.t = "list" /\ BeforeFirst # <<>>
  /\ AtFirstPoint.kind = "dict"
  /\ res.err = "InvalidIterationError" /\ yielded = <<>>

(***************************************************************************)
(* Notions the claims about unfold are stated with.                        *)
(***************************************************************************)
\* the split path of a key of a path dict
KeyPath(k) == split(k, FALSE).sp

\* unfold_path_dict was called on the caller's path dict
Unfolded == fpc = "unfolded" /\ tree = None

\* every key of the path dict is a valid path without iteration points
KeysSplit(pd) == \A i \in 1..Len(pd) : split(pd[i].k, FALSE).err = ""

\* some parent path gets an integer final component from one entry and a
\* string final component from another
Conflicting(pd) ==
  \E i, j \in 1..Len(pd) :
    /\ KeyPath(pd[i].k) # <<>> /\ KeyPath(pd[j].k) # <<>>
    /\ Front(KeyPath(pd[i].k)) = Front(KeyPath(pd[j].k))
    /\ Last(KeyPath(pd[i].k)).t = "int" /\ Last(KeyPath(pd[j].k)).t = "str"

(***************************************************************************)
(* C15: unfold_path_dict raises ValidationError whenever the path dict     *)
(* gives some parent path both an integer and a string final component     *)
(* (as {"a.b": 5, "a[0]": 6} does), whatever the order of the entries.     *)
(***************************************************************************)
C15_ConflictRaisesValidation ==
  (Unfolded /\ KeysSplit(table.pd) /\ Conflicting(table.pd)) =>
    unf.err \in ValidationErrors

\* what the code does for {"a.b": .., "a[0]": ..} in either order
C15_ConflictRuntimeError ==
  /\ Unfolded /\ Len(table.pd) = 2
  /\ table.pd[1].k = <<"a", "[", "0", "]">> /\ table.pd[2].k = <<"a", ".", "b">>
  /\ unf.err = "RuntimeError"

\* the indexes of the pairs of a partial list
PairIndexes(pl) == {pl.items[i].items[1].val : i \in 1..Len(pl.items)}

\* the indexes of the pairs are exactly 0, 1, ..., n-1, each once
ExactIndexes(pl) ==
  /\ PairIndexes(pl) = 0..(Len(pl.items) - 1)
  /\ \A i, j \in 1..Len(pl.items) :
       pl.items[i].items[1] = pl.items[j].items[1] => i = j

\* the value the partial list pairs with index n
ValueAt(pl, n) ==
  pl.items[CHOOSE i \in 1..Len(pl.items) : pl.items[i].items[1].val = n].items[2]

(***************************************************************************)
(* C16: _complete_partial_list returns the values ordered by index when    *)
(* the indexes of the pairs are exactly 0, 1, ..., n-1 in any order, and   *)
(* raises ValidationError otherwise (gap, non-zero start, duplicate);      *)
(* consequently unfolding {"[0]": x, "[2]": y} raises that error.          *)
(***************************************************************************)
C16_CompleteRequiresExactIndexes ==
  /\ fpc = "completed" =>
       IF ExactIndexes(partial)
       THEN /\ unf.err = ""
            /\ unf.val = MkList([n \in 1..Len(partial.items) |-> ValueAt(partial, n - 1)])
       ELSE unf.err = "ValidationError"
  /\ (Unfolded /\ {table.pd[i].k : i \in 1..Len(table.pd)}
                    = {<<"[", "0", "]">>, <<"[", "2", "]">>}) =>
       unf.err = "ValidationError"

\* the part that holds: pairs whose values Python can order
C16_OnOrderablePairs ==
  (fpc = "completed" /\ ~SortRaises(partial.items)) =>
     IF ExactIndexes(partial)
     THEN /\ unf.err = ""
          /\ unf.val = MkList([n \in 1..Len(partial.items) |-> ValueAt(partial, n - 1)])
     ELSE unf.err = "ValidationError"

\* an entry whose path is a proper prefix of another entry's path holds a
\* collection of the kind the next component needs
PrefixesHold(pd) ==
  \A i, j \in 1..Len(pd) :
    (/\ Len(KeyPath(pd[i].k)) < Len(KeyPath(pd[j].k))
     /\ SubSeq(KeyPath(pd[j].k), 1, Len(KeyPath(pd[i].k))) = KeyPath(pd[i].k))
    => KindMatches(pd[i].v, KeyPath(pd[j].k)[Len(KeyPath(pd[i].k)) + 1])

\* the integer final components under each parent are 0, 1, ..., n-1
IndexesComplete(pd) ==
  \A i \in 1..Len(pd) :
    (KeyPath(pd[i].k) # <<>> /\ Last(KeyPath(pd[i].k)).t = "int") =>
      \A n \in 0..(Last(KeyPath(pd[i].k)).n) :
        \E j \in 1..Len(pd) :
          KeyPath(pd[j].k) = Append(Front(KeyPath(pd[i].k)), IntKey(n))

\* a non-empty path dict of structurally consistent paths
StructurallyConsistent(pd) ==
  /\ pd # <<>> /\ KeysSplit(pd) /\ ~Conflicting(pd)
  /\ PrefixesHold(pd) /\ IndexesComplete(pd)

(***************************************************************************)
(* C17: for every non-empty path dict of structurally consistent paths,    *)
(* unfold_path_dict returns normally a dict whose only key is "", and for  *)
(* every input entry (path, value) get(result[""], path) = value.          *)
(***************************************************************************)
C17_UnfoldTerminates ==
  (Unfolded /\ proc = _default_processor /\ wrap
     /\ StructurallyConsistent(table.pd)) =>
    /\ unf.err = ""
    /\ PdKeys(unf.pd) = <<<<>>>>
    /\ \A i \in 1..Len(table.pd) :
         table.pd[i].k # <<>> =>
           /\ get(unf.pd[1].v, table.pd[i].k, NO_DEFAULT).err = ""
           /\ EqualValues(get(unf.pd[1].v, table.pd[i].k, NO_DEFAULT).val,
                          table.pd[i].v)

\* what the code does: it returns only for a path dict whose one key is ""
C17_ReturnsOnlyForRoot ==
  (Unfolded /\ unf.err = "") => PdKeys(table.pd) = <<<<>>>>

(***************************************************************************)
(* C18: during unfold each processor hook is applied and its return value  *)
(* is what ends up in the result: process_leaf on every leaf value,        *)
(* process_list on every completed list and process_dict on every          *)
(* completed dict, the root included.                                      *)
(***************************************************************************)
C18_HooksApplied ==
  (Unfolded /\ wrap /\ unf.err = "" /\ PdKeys(table.pd) = <<<<>>>>) =>
    unf.pd[1].v = (IF table.pd[1].v.kind = "dict"
                   THEN process_dict(proc, table.pd[1].v)
                   ELSE process_list(proc, table.pd[1].v))

\* an overriding process_dict and a returned root dict it was not applied to
C18_RootNotProcessed ==
  /\ Unfolded /\ wrap /\ unf.err = "" /\ proc.dict
  /\ unf.pd[1].v.kind = "dict"

\* split returned the split path sres.sp
SplitReturned == pc \in {"split", "joined", "validated"} /\ sres.err = "" /\ str # <<>>

(***************************************************************************)
(* C19 as stated: every component that split produces for a grammar-valid  *)
(* path is an iteration point, a non-negative integer index, or a          *)
(* non-empty string containing none of "[", "]", ".".                      *)
(***************************************************************************)
C19_ComponentsNonNegativeNoBracket ==
  SplitReturned =>
    \A i \in 1..Len(sres.sp) :
      \/ IsIterationPoint(sres.sp[i])
      \/ sres.sp[i].t = "int" /\ sres.sp[i].n >= 0
      \/ /\ sres.sp[i].t = "str" /\ sres.sp[i].s # <<>>
         /\ \A c \in {"[", "]", "."} : ~Contains(sres.sp[i].s, c)

(***************************************************************************)
(* C19 amended: every component that split produces is an iteration point  *)
(* (only with iterable=True), an integer index that may be negative, or a  *)
(* non-empty string containing neither "[" nor "." (it may contain "]");   *)
(* a string with a "*" is an iteration point.                              *)
(***************************************************************************)
C19_ComponentShapes ==
  SplitReturned =>
    \A i \in 1..Len(sres.sp) :
      \/ IsIterationPoint(sres.sp[i]) /\ iterable
      \/ sres.sp[i].t = "int"
      \/ /\ sres.sp[i].t = "str" /\ sres.sp[i].s # <<>>
         /\ \A c \in {"[", ".", "*"} : ~Contains(sres.sp[i].s, c)

\* split returned a negative index
C19_Witness ==
  /\ SplitReturned
  /\ \E i \in 1..Len(sres.sp) : sres.sp[i].t = "int" /\ sres.sp[i].n < 0

\* split returned a key with a "]"
C19_WitnessBracketKey ==
  /\ SplitReturned
  /\ \E i \in 1..Len(sres.sp) : sres.sp[i].t = "str" /\ Contains(sres.sp[i].s, "]")

(***************************************************************************)
(* C20: validation mirrors parsing: for every string s and each value of   *)
(* the iterable flag, is_path(s, iterable) returns True and                *)
(* validate_path(s, iterable) returns exactly when split(s, iterable)      *)
(* returns; when split fails, validate_path raises a ValidationError and   *)
(* is_path returns False rather than raising.                              *)
(***************************************************************************)
C20_ValidationMirrorsSplit ==
  pc = "validated" =>
    IF sres.err = ""
    THEN vres = "" /\ ires = [err |-> "", val |-> TRUE]
    ELSE vres \in ValidationErrors /\ ires = [err |-> "", val |-> FALSE]

\* what holds: the three agree unless int() or range() refuses a number of
\* the path, which split reports as ValueError
C20_UnlessValueError ==
  (pc = "validated" /\ sres.err # "ValueError") =>
    IF sres.err = ""
    THEN vres = "" /\ ires = [err |-> "", val |-> TRUE]
    ELSE vres \in ValidationErrors /\ ires = [err |-> "", val |-> FALSE]

\* split raises ValueError for a string that is_path accepts
C20_AcceptedButUnsplittable ==
  /\ pc = "validated" /\ iterable /\ sres.err = "ValueError"
  /\ vres = "" /\ ires = [err |-> "", val |-> TRUE]

(***************************************************************************)
(* Notions the claim about slices is stated with: Python's slicing of a    *)
(* list of n elements.                                                     *)
(***************************************************************************)
\* the fields of the slice written between the brackets of part, each one
\* given or left out
SliceFields(part) ==
  Let(SplitColon(SubSeq(part, 2, Len(part) - 1), <<>>, <<>>), LAMBDA parts :
    [hasStart |-> parts[1] # <<>>,
     start |-> IF parts[1] # <<>> THEN ParseInt(parts[1]) ELSE 0,
     hasStop |-> parts[2] # <<>>,
     stop |-> IF parts[2] # <<>> THEN ParseInt(parts[2]) ELSE 0,
     step |-> IF Len(parts) = 3 /\ parts[3] # <<>> THEN ParseInt(parts[3]) ELSE 1])

\* a bound of a slice brought into lo..hi: counted from the end when negative
Adjusted(given, v, n, lo, hi, dflt) ==
  IF ~given THEN dflt
  ELSE IF v < 0 THEN (IF v + n < lo THEN lo ELSE v + n)
  ELSE IF v > hi THEN hi ELSE v

\* the positions from i on, step by step, before stop
RECURSIVE PositionsFrom(_, _, _)
PositionsFrom(i, stop, step) ==
  IF (step > 0 /\ i >= stop) \/ (step < 0 /\ i <= stop) THEN <<>>
  ELSE <<i>> \o PositionsFrom(i + step, stop, step)

\* the positions L[start:stop:step] selects in a list of n elements, in order
PySlice(n, f) ==
  IF f.step > 0
  THEN PositionsFrom(Adjusted(f.hasStart, f.start, n, 0, n, 0),
                     Adjusted(f.hasStop, f.stop, n, 0, n, n), f.step)
  ELSE PositionsFrom(Adjusted(f.hasStart, f.start, n, 0 - 1, n - 1, n - 1),
                     Adjusted(f.hasStop, f.stop, n, 0 - 1, n - 1, 0 - 1), f.step)

\* the pairs for the positions ps of the list L: the path "[i]" and L[i]
SlicePairs(L, ps) ==
  [k \in 1..Len(ps) |->
     Pair(<<"[">> \o NatToStr(ps[k]) \o <<"]">>, L.items[ps[k] + 1])]

\* iterate was called on a list with a path that is one slice
SliceCalled ==
  /\ IterCalled /\ Len(IterPath) = 1 /\ IterPath[1].t = "range"
  /\ root.kind = "list"

\* no field of the slice is negative
NonNegativeSlice(f) == f.start >= 0 /\ f.stop >= 0 /\ f.step > 0

(***************************************************************************)
(* C21: for every list L and slice component [start:stop:step] (each field *)
(* optional, signed), iterate yields exactly the (index, element) pairs    *)
(* that L[start:stop:step] selects, in the same order, each selected       *)
(* position once, the path carrying that position; indices beyond the end  *)
(* of L end the iteration without error.                                   *)
(***************************************************************************)
C21_SliceIsPythonSlice ==
  SliceCalled =>
    /\ res.err = ""
    /\ yielded = SlicePairs(root, PySlice(Len(root.items), SliceFields(IterPath[1].s)))

\* C21, part that holds: a slice without a negative field yields what
\* Python's slicing selects, and no slice on a list raises
C21_NonNegativeSlices ==
  SliceCalled =>
    /\ res.err = ""
    /\ NonNegativeSlice(SliceFields(IterPath[1].s)) =>
         yielded = SlicePairs(root, PySlice(Len(root.items), SliceFields(IterPath[1].s)))

\* a slice from the last element on has yielded more pairs than the list
\* has elements
C21_NegativeStartWraps ==
  /\ SliceCalled /\ path = <<"[", "-", "1", ":", "]">>
  /\ Len(root.items) = 2
  /\ Len(yielded) = 3
  /\ yielded[1].p = <<"[", "-", "1", "]">>
  /\ yielded[1].v = yielded[3].v

(***************************************************************************)
(* Notions the claim about fold is stated with.                            *)
(***************************************************************************)
\* the split paths from t down to its leaf values, t found at split path at;
\* a list or dict is no leaf value
RECURSIVE LeafPaths(_, _)
LeafPaths(t, at) ==
  IF ~IsCollection(t) THEN {at}
  ELSE UNION {LeafPaths(t.items[i],
                        Append(at, IF t.kind = "list" THEN IntKey(i - 1)
                                   ELSE StrKey(t.keys[i]))) :
              i \in 1..Len(t.items)}

\* the value of t at the end of the split path sp, taken child by child
RECURSIVE ValueAtPath(_, _)
ValueAtPath(t, sp) ==
  IF sp = <<>> THEN t
  ELSE LET i == IF t.kind = "list" THEN Head(sp).n + 1
                ELSE CHOOSE j \in 1..Len(t.keys) : t.keys[j] = Head(sp).s
       IN  ValueAtPath(t.items[i], Tail(sp))

\* fold_path_dict(tree, base) was called with a root path split accepts
FoldCalled == fpc \in {"folded", "unfolded"} /\ split(base, FALSE).err = ""

\* the rendered path of the leaf at split path sp, after the root path
KeyOf(sp) == JoinFrom(base, sp)

\* the path dict has the entry (k, v)
HasEntry(pd, k, v) == \E i \in 1..Len(pd) : pd[i].k = k /\ pd[i].v = v

\* the root path is written as join writes it
CanonicalBase == join(split(base, FALSE).sp) = base

(***************************************************************************)
(* C22: fold_path_dict(T) for a list or dict root T records exactly one    *)
(* entry per leaf value of T: each key is the rendered path from the root  *)
(* to that leaf (prefixed by root_path when given), and for every entry    *)
(* (p, v) with empty root_path get(T, p) = v; no entry is recorded for a   *)
(* list or dict node itself; folding a root that is no list or dict with   *)
(* an empty root_path raises ValidationError.                              *)
(***************************************************************************)
C22_FoldOneEntryPerLeaf ==
  FoldCalled =>
    IF IsCollection(tree)
    THEN /\ table.err = ""
         /\ Len(table.pd) = Cardinality(LeafPaths(tree, <<>>))
         /\ \A sp \in LeafPaths(tree, <<>>) :
              HasEntry(table.pd, KeyOf(sp), ValueAtPath(tree, sp))
         /\ base = <<>> =>
              \A i \in 1..Len(table.pd) :
                /\ get(tree, table.pd[i].k, NO_DEFAULT).err = ""
                /\ get(tree, table.pd[i].k, NO_DEFAULT).val = table.pd[i].v
    ELSE base = <<>> => table.err = "ValidationError"

\* C22, part that holds: the claim for trees whose dict keys are literal keys
\* of the grammar and a root path written as join writes it
C22_OnLiteralKeys ==
  (FoldCalled /\ LiteralKeys(tree) /\ CanonicalBase) => C22_FoldOneEntryPerLeaf

\* two leaves of a tree were folded into one entry
C22_LeafLost ==
  /\ FoldCalled /\ base = <<>> /\ table.err = ""
  /\ Cardinality(LeafPaths(tree, <<>>)) = 2
  /\ Len(table.pd) = 1

\* a tree with lists and dicts was folded under a root path
C22_FoldedUnderRootPath ==
  /\ FoldCalled /\ base = <<"a">> /\ table.err = ""
  /\ tree.kind = "list" /\ Len(table.pd) = 2
  /\ table.pd[1].k = <<"a", "[", "0", "]", ".", "a">>

(***************************************************************************)
(* C23: iterate and get agree on resolved paths.  For every tree whose     *)
(* dict keys are literal keys of the grammar and every path, each pair     *)
(* (p, v) yielded by iterate called without a default has p a valid path   *)
(* without iteration point and get(root, p) returns v; the pairs are       *)
(* finitely many (no path is yielded twice) and iterate leaves the tree    *)
(* unchanged.                                                              *)
(***************************************************************************)
\* iterate was called without a default on a tree with literal keys
ResolvedCalled == IterCalled /\ default = NO_DEFAULT /\ LiteralKeys(root)

C23_IterateAgreesWithGet ==
  ResolvedCalled =>
    /\ \A i \in 1..Len(yielded) :
         /\ split(yielded[i].p, FALSE).err = ""
         /\ get(root, yielded[i].p, NO_DEFAULT).err = ""
         /\ get(root, yielded[i].p, NO_DEFAULT).val = yielded[i].v
    /\ \A i, j \in 1..Len(yielded) : yielded[i].p = yielded[j].p => i = j
    /\ root = old

\* a "[]" followed by a "*"-key has yielded the keys of the dicts of a list
C23_Witness ==
  /\ ResolvedCalled /\ IterKinds(IterPath) = {"list", "star"}
  /\ res.err = "" /\ Len(yielded) >= 2
  /\ yielded[1].p = <<"[", "0", "]", ".", "a">>

\* pairs were yielded before iterate raised at a missing leaf
C23_WitnessRaisedLater ==
  /\ ResolvedCalled /\ IterKinds(IterPath) # {}
  /\ res.err \in LookupErrors /\ yielded # <<>>

\* a slice with a negative start has yielded a path with a negative index
C23_WitnessNegativeIndex ==
  /\ ResolvedCalled /\ IterKinds(IterPath) = {"range"}
  /\ yielded # <<>> /\ yielded[1].p = <<"[", "-", "1", "]">>

\* the condition on the keys is needed: the key "a.b" is yielded as a path
\* that get does not resolve
C23_DottedKeyNotResolved ==
  /\ IterCalled /\ default = NO_DEFAULT /\ ~LiteralKeys(root)
  /\ path = <<"*">> /\ yielded # <<>>
  /\ yielded[1].p = <<"a", ".", "b">>
  /\ get(root, yielded[1].p, NO_DEFAULT).err = "PathLookupError"

====
